---- MODULE Spec2Model ----
(***************************************************************************)
(* Model of easybuild/tools/docs.py: the documentation renderers of the    *)
(* EasyBuild framework.                                                    *)
(*                                                                         *)
(* A Python str is a sequence of one-character strings, so that len(),     *)
(* upper(), strip(), startswith(), sorting and padding are computed the    *)
(* way Python computes them.  A rendered text is the sequence of its       *)
(* lines (the argument of the final '\n'.join).  A Python value of         *)
(* another type is a one-field record naming its type.  A call's outcome   *)
(* is a record: the value returned, or [exc |-> ...] naming the exception  *)
(* raised.  Three characters are written by their names, "GRAVE ACCENT",   *)
(* "QUOTATION MARK" and "REVERSE SOLIDUS".                                 *)
(***************************************************************************)
EXTENDS Integers, Sequences, FiniteSets, TLC

VARIABLES heap, call, results, modules, doc_examples, runs

vars == <<heap, call, results, modules, doc_examples, runs>>

(***************************************************************************)
(* Bounds of the model.                                                    *)
(***************************************************************************)
\* number of different avail_easyconfig_params calls in one run
MaxCalls == 2

\* number of candidate strings handed to det_col_width
MaxEntries == 3

\* number of modules import_available_modules returns
MaxModules == 2

\* number of generic_easyblocks calls in one run
MaxRuns == 2

(***************************************************************************)
(* Python strings.                                                         *)
(***************************************************************************)
Ascii == <<" ","!","QUOTATION MARK","#","$","%","&","'","(",")","*","+",",","-",".","/","0","1","2","3","4","5","6","7","8","9",":",";","<","=",">","?","@","A","B","C","D","E","F","G","H","I","J","K","L","M","N","O","P","Q","R","S","T","U","V","W","X","Y","Z","[","REVERSE SOLIDUS","]","^","_","GRAVE ACCENT","a","b","c","d","e","f","g","h","i","j","k","l","m","n","o","p","q","r","s","t","u","v","w","x","y","z","{","|","}","~">>

\* ord(c) - 31, for the printable ASCII characters
OrdTable == [c \in {Ascii[i] : i \in 1..Len(Ascii)} |-> CHOOSE i \in 1..Len(Ascii) : Ascii[i] = c]

Ord(c) == OrdTable[c]

Lowercase == <<"a","b","c","d","e","f","g","h","i","j","k","l","m","n","o","p","q","r","s","t","u","v","w","x","y","z">>

Uppercase == <<"A","B","C","D","E","F","G","H","I","J","K","L","M","N","O","P","Q","R","S","T","U","V","W","X","Y","Z">>

Digits == <<"0","1","2","3","4","5","6","7","8","9">>

\* c * n
Rep(c, n) == [i \in 1..n |-> c]

UpperTable ==
    [c \in {Ascii[i] : i \in 1..Len(Ascii)} |->
        IF \E i \in 1..Len(Lowercase) : Lowercase[i] = c
        THEN Uppercase[CHOOSE i \in 1..Len(Lowercase) : Lowercase[i] = c]
        ELSE c]

UpperChar(c) == UpperTable[c]

\* s.upper()
Upper(s) == [i \in 1..Len(s) |-> UpperChar(s[i])]

\* s.startswith(p)
StartsWith(s, p) == Len(s) >= Len(p) /\ SubSeq(s, 1, Len(p)) = p

\* s.endswith(p)
EndsWith(s, p) == Len(s) >= Len(p) /\ SubSeq(s, Len(s) - Len(p) + 1, Len(s)) = p

RECURSIVE LStrip(_)
LStrip(s) == IF s # <<>> /\ Head(s) = " " THEN LStrip(Tail(s)) ELSE s

RECURSIVE RStrip(_)
RStrip(s) == IF s # <<>> /\ s[Len(s)] = " " THEN RStrip(SubSeq(s, 1, Len(s) - 1)) ELSE s

\* s.strip()
Strip(s) == RStrip(LStrip(s))

\* a < b for two str: lexicographic on the character codes
RECURSIVE StrLess(_, _)
StrLess(a, b) ==
    IF b = <<>> THEN FALSE
    ELSE IF a = <<>> THEN TRUE
    ELSE IF Head(a) # Head(b) THEN Ord(Head(a)) < Ord(Head(b))
    ELSE StrLess(Tail(a), Tail(b))

\* sorted(S) for a set of str
RECURSIVE Sorted(_)
Sorted(S) ==
    IF S = {} THEN <<>>
    ELSE LET m == CHOOSE x \in S : \A y \in S \ {x} : StrLess(x, y)
         IN <<m>> \o Sorted(S \ {m})

\* the elements of a sequence
Range(seq) == {seq[i] : i \in 1..Len(seq)}

\* sep.join(parts)
RECURSIVE Join(_, _)
Join(sep, parts) ==
    IF parts = <<>> THEN <<>>
    ELSE IF Len(parts) = 1 THEN parts[1]
    ELSE parts[1] \o sep \o Join(sep, Tail(parts))

\* "{0:{c}<w}".format(s, c=c): left-aligned in a field of width w filled
\* with c; a longer s is never cut
Ljust(s, w, c) == IF Len(s) >= w THEN s ELSE s \o Rep(c, w - Len(s))

(***************************************************************************)
(* Python values other than str.                                           *)
(***************************************************************************)
PyStr(s) == [str |-> s]

PyInt(n) == [int |-> n]

PyNone == [none |-> TRUE]

PyTuple(t) == [tuple |-> t]

IsStr(v) == DOMAIN v = {"str"}

\* a == b for two Python values: values of different types are not equal
PyEq(a, b) == a = b

\* str(n) for an int n >= 0
RECURSIVE IntToStr(_)
IntToStr(n) ==
    IF n < 10 THEN <<Digits[n + 1]>>
    ELSE IntToStr(n \div 10) \o <<Digits[(n % 10) + 1]>>

\* str(v)
PyToStr(v) ==
    IF IsStr(v) THEN v.str
    ELSE IF DOMAIN v = {"int"} THEN IntToStr(v.int)
    ELSE <<"N","o","n","e">>

\* quote_str(v): a str is put between quotes, any other value is returned
\* as it is
quote_str(v) ==
    IF IsStr(v) THEN PyStr(<<"'">> \o v.str \o <<"'">>) ELSE v

\* max(seq) over a list of int: ValueError on the empty list
RECURSIVE MaxOf(_)
MaxOf(seq) ==
    IF Len(seq) = 1 THEN seq[1]
    ELSE LET m == MaxOf(Tail(seq)) IN IF seq[1] >= m THEN seq[1] ELSE m

PyMax(seq) == IF seq = <<>> THEN [exc |-> "ValueError"] ELSE [ret |-> MaxOf(seq)]

\* map(len, seq)
MapLen(seq) == [i \in 1..Len(seq) |-> Len(seq[i])]

(***************************************************************************)
(* det_col_width                                                           *)
(***************************************************************************)
\* the column title is left out of the candidates
det_col_width_no_title(entries, title) == PyMax(MapLen(entries))

det_col_width(entries, title) == PyMax(MapLen(entries \o <<title>>))

(***************************************************************************)
(* The framework's parameter categories and default table                  *)
(* (easybuild.framework.easyconfig.default).                               *)
(***************************************************************************)
\* a category is a pair: sort key, label
HIDDEN == <<-1, <<"h","i","d","d","e","n">>>>

MANDATORY == <<0, <<"m","a","n","d","a","t","o","r","y">>>>

CUSTOM == <<1, <<"e","a","s","y","b","l","o","c","k","-","s","p","e","c","i","f","i","c">>>>

TOOLCHAIN == <<2, <<"t","o","o","l","c","h","a","i","n">>>>

BUILD == <<3, <<"b","u","i","l","d">>>>

ALL_CATEGORIES == {HIDDEN, MANDATORY, CUSTOM, TOOLCHAIN, BUILD}

RECURSIVE SortByKey(_)
SortByKey(cats) ==
    IF cats = {} THEN <<>>
    ELSE LET m == CHOOSE c \in cats : \A d \in cats : c[1] <= d[1]
         IN <<m>> \o SortByKey(cats \ {m})

\* the categories, sorted on their sort key
sorted_categories == SortByKey(ALL_CATEGORIES)

\* a parameter table: name -> <<default, description, category>>
EmptyDict == [n \in {} |-> <<>>]

MandatoryParams ==
    (<<"n","a","m","e">> :> <<PyNone, <<"N","a","m","e"," ","o","f"," ","s","o","f","t","w","a","r","e">>, MANDATORY>>)
    @@ (<<"v","e","r","s","i","o","n">> :> <<PyNone, <<"V","e","r","s","i","o","n"," ","o","f"," ","s","o","f","t","w","a","r","e">>, MANDATORY>>)

BuildParams ==
    (<<"c","o","n","f","i","g","o","p","t","s">> :> <<PyStr(<<>>), <<"E","x","t","r","a"," ","o","p","t","i","o","n","s"," ","p","a","s","s","e","d"," ","t","o"," ","c","o","n","f","i","g","u","r","e">>, BUILD>>)
    @@ (<<"b","u","i","l","d","o","p","t","s">> :> <<PyStr(<<>>), <<"E","x","t","r","a"," ","o","p","t","i","o","n","s"," ","p","a","s","s","e","d"," ","t","o"," ","m","a","k","e">>, BUILD>>)
    @@ (<<"i","n","s","t","a","l","l","o","p","t","s">> :> <<PyStr(<<>>), <<"E","x","t","r","a"," ","o","p","t","i","o","n","s"," ","f","o","r"," ","i","n","s","t","a","l","l","a","t","i","o","n">>, BUILD>>)
    @@ (<<"p","a","r","a","l","l","e","l">> :> <<PyInt(1), <<"D","e","g","r","e","e"," ","o","f"," ","p","a","r","a","l","l","e","l","i","s","m">>, BUILD>>)

HiddenParams ==
    (<<"e","a","s","y","b","l","o","c","k","_","h","o","o","k">> :> <<PyStr(<<"n","o","n","e">>), <<"I","n","t","e","r","n","a","l"," ","u","s","e"," ","o","n","l","y">>, HIDDEN>>)

\* the default tables the framework may hold when this module is imported
DefaultTables ==
    { MandatoryParams,
      MandatoryParams @@ BuildParams,
      MandatoryParams @@ BuildParams @@ HiddenParams }

(***************************************************************************)
(* Easyblock classes: __name__, __module__, __bases__ (their names),       *)
(* __doc__ and the dictionary extra_options() returns.                     *)
(***************************************************************************)
GenericPrefix == <<"e","a","s","y","b","u","i","l","d",".","e","a","s","y","b","l","o","c","k","s",".","g","e","n","e","r","i","c">>

EasyBlock ==
    [ name |-> <<"E","a","s","y","B","l","o","c","k">>,
      module |-> <<"e","a","s","y","b","u","i","l","d",".","f","r","a","m","e","w","o","r","k",".","e","a","s","y","b","l","o","c","k">>,
      bases |-> << <<"o","b","j","e","c","t">> >>,
      doc |-> PyStr(<<"G","e","n","e","r","i","c"," ","s","u","p","p","o","r","t"," ","f","o","r"," ","b","u","i","l","d","i","n","g"," ","s","o","f","t","w","a","r","e",".">>),
      extra_options |-> EmptyDict ]

ConfigureMake ==
    [ name |-> <<"C","o","n","f","i","g","u","r","e","M","a","k","e">>,
      module |-> <<"e","a","s","y","b","u","i","l","d",".","e","a","s","y","b","l","o","c","k","s",".","g","e","n","e","r","i","c",".","c","o","n","f","i","g","u","r","e","m","a","k","e">>,
      bases |-> << <<"E","a","s","y","B","l","o","c","k">> >>,
      doc |-> PyStr(<<" "," ","S","u","p","p","o","r","t"," ","f","o","r"," ","c","o","n","f","i","g","u","r","e","/","m","a","k","e","/","m","a","k","e"," ","i","n","s","t","a","l","l","."," "," ">>),
      extra_options |->
          (<<"c","o","n","f","i","g","u","r","e","_","c","m","d","_","p","r","e","f","i","x">> :> <<PyStr(<<>>), <<"P","r","e","f","i","x"," ","t","o"," ","b","e"," ","g","l","u","e","d"," ","b","e","f","o","r","e"," ",".","/","c","o","n","f","i","g","u","r","e">>, CUSTOM>>)
          @@ (<<"i","n","s","t","a","l","l","_","c","m","d">> :> <<PyStr(<<"m","a","k","e"," ","i","n","s","t","a","l","l">>), <<"I","n","s","t","a","l","l"," ","c","o","m","m","a","n","d">>, CUSTOM>>) ]

CMakeMake ==
    [ name |-> <<"C","M","a","k","e","M","a","k","e">>,
      module |-> <<"e","a","s","y","b","u","i","l","d",".","e","a","s","y","b","l","o","c","k","s",".","g","e","n","e","r","i","c",".","c","m","a","k","e","m","a","k","e">>,
      bases |-> << <<"C","o","n","f","i","g","u","r","e","M","a","k","e">> >>,
      doc |-> PyStr(<<"S","u","p","p","o","r","t"," ","f","o","r"," ","c","o","n","f","i","g","u","r","i","n","g"," ","b","u","i","l","d"," ","w","i","t","h"," ","C","M","a","k","e",".">>),
      extra_options |->
          (<<"s","r","c","d","i","r">> :> <<PyNone, <<"S","o","u","r","c","e"," ","d","i","r","e","c","t","o","r","y">>, CUSTOM>>)
          @@ (<<"s","e","p","a","r","a","t","e","_","b","u","i","l","d","_","d","i","r">> :> <<PyInt(0), <<"O","u","t","-","o","f","-","s","o","u","r","c","e"," ","b","u","i","l","d">>, CUSTOM>>) ]

\* overwrites two framework defaults and declares a hidden parameter
Bundle ==
    [ name |-> <<"B","u","n","d","l","e">>,
      module |-> <<"e","a","s","y","b","u","i","l","d",".","e","a","s","y","b","l","o","c","k","s",".","g","e","n","e","r","i","c",".","b","u","n","d","l","e">>,
      bases |-> << <<"E","a","s","y","B","l","o","c","k">> >>,
      doc |-> PyStr(<<"B","u","n","d","l","e"," ","o","f"," ","m","o","d","u","l","e","s",".">>),
      extra_options |->
          (<<"v","e","r","s","i","o","n">> :> <<PyStr(<<"1",".","0">>), <<"V","e","r","s","i","o","n"," ","o","f"," ","t","h","e"," ","b","u","n","d","l","e">>, CUSTOM>>)
          @@ (<<"p","a","r","a","l","l","e","l">> :> <<PyInt(16), <<"P","a","r","a","l","l","e","l","i","s","m"," ","o","f"," ","c","o","m","p","o","n","e","n","t","s">>, BUILD>>)
          @@ (<<"a","l","t","r","o","o","t">> :> <<PyNone, <<"I","n","t","e","r","n","a","l"," ","r","o","o","t">>, HIDDEN>>) ]

\* declares a parameter whose own name ends in the marker
Toy ==
    [ name |-> <<"T","o","y">>,
      module |-> <<"e","a","s","y","b","u","i","l","d",".","e","a","s","y","b","l","o","c","k","s",".","t","o","y">>,
      bases |-> << <<"E","a","s","y","B","l","o","c","k">>, <<"o","b","j","e","c","t">> >>,
      doc |-> PyStr(<<"T","o","y"," ","e","a","s","y","b","l","o","c","k",".">>),
      extra_options |->
          (<<"o","p","t">> :> <<PyStr(<<"a">>), <<"T","o","y"," ","o","p","t","i","o","n">>, CUSTOM>>)
          @@ (<<"o","p","t","*">> :> <<PyStr(<<"b">>), <<"O","t","h","e","r"," ","t","o","y"," ","o","p","t","i","o","n">>, CUSTOM>>) ]

\* a class without docstring
Undocumented ==
    [ name |-> <<"U","n","d","o","c","u","m","e","n","t","e","d">>,
      module |-> <<"e","a","s","y","b","u","i","l","d",".","e","a","s","y","b","l","o","c","k","s",".","g","e","n","e","r","i","c",".","u","n","d","o","c","u","m","e","n","t","e","d">>,
      bases |-> << <<"E","a","s","y","B","l","o","c","k">> >>,
      doc |-> PyNone,
      extra_options |-> EmptyDict ]

\* a second class named ConfigureMake, defined in another generic module
ConfigureMake2 ==
    [ name |-> <<"C","o","n","f","i","g","u","r","e","M","a","k","e">>,
      module |-> <<"e","a","s","y","b","u","i","l","d",".","e","a","s","y","b","l","o","c","k","s",".","g","e","n","e","r","i","c",".","a","u","t","o","t","o","o","l","s">>,
      bases |-> << <<"E","a","s","y","B","l","o","c","k">> >>,
      doc |-> PyStr(<<"A","u","t","o","t","o","o","l","s",".">>),
      extra_options |-> EmptyDict ]

Classes == {EasyBlock, ConfigureMake, CMakeMake, Bundle, Toy, Undocumented, ConfigureMake2}

\* the classes an easyblock name resolves to
Resolvable == {EasyBlock, ConfigureMake, CMakeMake, Bundle, Toy}

\* get_easyblock_class(easyblock, default_fallback=False): the class of
\* that name, None when no name is given or no class has that name
get_easyblock_class(easyblock) ==
    IF IsStr(easyblock) /\ \E c \in Resolvable : c.name = easyblock.str
    THEN [class |-> CHOOSE c \in Resolvable : c.name = easyblock.str]
    ELSE PyNone

\* the easyblock arguments of avail_easyconfig_params
Easyblocks ==
    { PyNone, PyStr(<<"N","o","S","u","c","h","B","l","o","c","k">>), PyStr(<<"E","a","s","y","B","l","o","c","k">>), PyStr(<<"C","o","n","f","i","g","u","r","e","M","a","k","e">>),
      PyStr(<<"B","u","n","d","l","e">>), PyStr(<<"T","o","y">>) }

FORMAT_RST == <<"r","s","t">>

FORMAT_TXT == <<"t","x","t">>

\* the output_format arguments of avail_easyconfig_params
Formats == {FORMAT_RST, FORMAT_TXT, <<"h","t","m","l">>}

(***************************************************************************)
(* Objects: the heap maps an object's name to the dictionary it holds.     *)
(* DEFAULT_CONFIG is the framework's shared table; a call's own objects    *)
(* are dropped when it returns.                                            *)
(***************************************************************************)
DEFAULT_CONFIG == "DEFAULT_CONFIG"

\* the copy is left out: the result is the object itself
copy_alias(h, obj) == [heap |-> h, ref |-> obj]

\* copy.deepcopy(obj): a new object holding a copy of obj's dictionary
copy_deepcopy(h, obj) ==
    [heap |-> ("params" :> h[obj]) @@ h, ref |-> "params"]

\* d.update(other), on the object ref
dict_update(h, ref, other) == [h EXCEPT ![ref] = other @@ h[ref]]

\* what is left of the heap when the call has returned
Collect(h) == [o \in {DEFAULT_CONFIG} |-> h[o]]

(***************************************************************************)
(* OrderedDict: a sequence of <<key, value>>, in insertion order.          *)
(***************************************************************************)
OD_Has(od, k) == \E i \in 1..Len(od) : od[i][1] = k

\* od[k] = v
OD_Set(od, k, v) ==
    IF OD_Has(od, k)
    THEN [i \in 1..Len(od) |-> IF od[i][1] = k THEN <<k, v>> ELSE od[i]]
    ELSE Append(od, <<k, v>>)

\* od[k]
OD_Get(od, k) == od[CHOOSE i \in 1..Len(od) : od[i][1] = k][2]

\* del od[k]
OD_Del(od, k) == SelectSeq(od, LAMBDA e : e[1] # k)

\* d.keys() and the iteration order of a dict: the order is the
\* interpreter's; nothing below depends on which one it is
Keys(d) == Sorted(DOMAIN d)

(***************************************************************************)
(* avail_easyconfig_params_rst                                             *)
(***************************************************************************)
\* the three-column line template "{0:{c}<nw}   {1:{c}<dw}   {2:{c}<dfw}"
line_tmpl(nw, dw, dfw, a, b, d, c) ==
    Ljust(a, nw, c) \o <<" "," "," ">> \o Ljust(b, dw, c) \o <<" "," "," ">> \o Ljust(d, dfw, c)

\* the table rows, one per parameter, sorted on the name
rst_rows(grp, nw, dw, dfw) ==
    LET names == Sorted(DOMAIN grp)
    IN [i \in 1..Len(names) |->
           line_tmpl(nw, dw, dfw, <<"GRAVE ACCENT","GRAVE ACCENT">> \o names[i] \o <<"GRAVE ACCENT","GRAVE ACCENT">>, grp[names[i]][1],
                     PyToStr(quote_str(grp[names[i]][2])), " ")]

\* the section of one group
rst_group(grpname, grp) ==
    LET head == grpname \o <<" ","p","a","r","a","m","e","t","e","r","s">>
        name_title == <<"*","*","P","a","r","a","m","e","t","e","r"," ","n","a","m","e","*","*">>
        descr_title == <<"*","*","D","e","s","c","r","i","p","t","i","o","n","*","*">>
        dflt_title == <<"*","*","D","e","f","a","u","l","t"," ","v","a","l","u","e","*","*">>
        keys == Keys(grp)
        nw == det_col_width(keys, name_title).ret + 4
        dw == det_col_width([i \in 1..Len(keys) |-> grp[keys[i]][1]], descr_title).ret
        dfw == det_col_width([i \in 1..Len(keys) |-> PyToStr(quote_str(grp[keys[i]][2]))],
                             dflt_title).ret
        table_line == line_tmpl(nw, dw, dfw, <<>>, <<>>, <<>>, "=")
    IN << head, Rep("-", Len(head)), <<>>,
          table_line,
          line_tmpl(nw, dw, dfw, name_title, descr_title, dflt_title, " "),
          line_tmpl(nw, dw, dfw, <<>>, <<>>, <<>>, "-") >>
       \o rst_rows(grp, nw, dw, dfw)
       \o << table_line, <<>> >>

RECURSIVE rst_groups(_)
rst_groups(grouped_params) ==
    IF grouped_params = <<>> THEN <<>>
    ELSE rst_group(grouped_params[1][1], grouped_params[1][2])
         \o rst_groups(Tail(grouped_params))

avail_easyconfig_params_rst(title, grouped_params) ==
    [lines |-> << title, Rep("=", Len(title)), <<>> >> \o rst_groups(grouped_params)]

(***************************************************************************)
(* avail_easyconfig_params_txt                                             *)
(***************************************************************************)
txt_rows(grp, nw) ==
    LET names == Sorted(DOMAIN grp)
    IN [i \in 1..Len(names) |->
           Ljust(names[i], nw, " ") \o <<" "," "," ">> \o grp[names[i]][1] \o <<" ","[","d","e","f","a","u","l","t",":"," ">>
           \o PyToStr(quote_str(grp[names[i]][2])) \o <<"]">>]

\* the section of one group; nw is max(map(len, keys))
txt_group(grpname, grp, nw) ==
    << Upper(grpname), Rep("-", Len(Upper(grpname))) >> \o txt_rows(grp, nw) \o << <<>> >>

RECURSIVE txt_groups(_)
txt_groups(grouped_params) ==
    IF grouped_params = <<>> THEN [lines |-> <<>>]
    ELSE LET nw == PyMax(MapLen(Keys(grouped_params[1][2])))
             rest == txt_groups(Tail(grouped_params))
         IN IF "exc" \in DOMAIN nw THEN nw
            ELSE IF "exc" \in DOMAIN rest THEN rest
            ELSE [lines |-> txt_group(grouped_params[1][1], grouped_params[1][2], nw.ret)
                            \o rest.lines]

avail_easyconfig_params_txt(title, grouped_params) ==
    LET body == txt_groups(grouped_params)
    IN IF "exc" \in DOMAIN body THEN body
       ELSE [lines |-> << title \o <<":">>, <<>> >> \o body.lines]

(***************************************************************************)
(* avail_easyconfig_params                                                 *)
(***************************************************************************)
\* x in list
PyIn(x, list) == \E i \in 1..Len(list) : PyEq(x, list[i])

\* the category is skipped: its upper-cased label is looked up in [HIDDEN]
is_hidden(category) == PyIn(PyStr(Upper(category[2])), << PyTuple(HIDDEN) >>)

\* the note is appended whenever an easyblock was asked for
compose_title_any(easyblock, app, extra_params) ==
    IF easyblock # PyNone
    THEN <<"A","v","a","i","l","a","b","l","e"," ","e","a","s","y","c","o","n","f","i","g"," ","p","a","r","a","m","e","t","e","r","s"," ","(","*"," ","i","n","d","i","c","a","t","e","s"," ","s","p","e","c","i","f","i","c"," ","t","o"," ","t","h","e"," ">>
         \o (IF app = PyNone THEN <<"N","o","n","e">> ELSE app.class.name) \o <<" ","e","a","s","y","b","l","o","c","k",")">>
    ELSE <<"A","v","a","i","l","a","b","l","e"," ","e","a","s","y","c","o","n","f","i","g"," ","p","a","r","a","m","e","t","e","r","s">>

\* the title, with the note on the marker if extra parameters were merged
compose_title(easyblock, app, extra_params) ==
    IF DOMAIN extra_params # {}
    THEN <<"A","v","a","i","l","a","b","l","e"," ","e","a","s","y","c","o","n","f","i","g"," ","p","a","r","a","m","e","t","e","r","s"," ","(","*"," ","i","n","d","i","c","a","t","e","s"," ","s","p","e","c","i","f","i","c"," ","t","o"," ","t","h","e"," ">>
         \o app.class.name \o <<" ","e","a","s","y","b","l","o","c","k",")">>
    ELSE <<"A","v","a","i","l","a","b","l","e"," ","e","a","s","y","c","o","n","f","i","g"," ","p","a","r","a","m","e","t","e","r","s">>

\* the marker is left out
marked_name_plain(name, extra_params) == name

\* the name under which a parameter is listed
marked_name(name, extra_params) ==
    IF name \in DOMAIN extra_params THEN name \o <<"*">> ELSE name

\* the parameters of one category: listed name -> <<description, default>>;
\* each parameter of the category updates the group under its listed name
group_of(category, params, extra_params) ==
    LET names == {n \in DOMAIN params : params[n][3] = category}
        listed == {marked_name(n, extra_params) : n \in names}
    IN [k \in listed |->
           LET n == CHOOSE n \in names : marked_name(n, extra_params) = k
           IN <<params[n][2], params[n][1]>>]

\* the empty group is kept
keep_group(grouped_params, grpname) == grouped_params

\* if not grouped_params[grpname]: del grouped_params[grpname]
drop_if_empty(grouped_params, grpname) ==
    IF DOMAIN OD_Get(grouped_params, grpname) = {}
    THEN OD_Del(grouped_params, grpname)
    ELSE grouped_params

\* the categories are taken in the order of their labels
group_loop_cats_by_label ==
    LET labels == Sorted({c[2] : c \in ALL_CATEGORIES})
    IN [i \in 1..Len(labels) |-> CHOOSE c \in ALL_CATEGORIES : c[2] = labels[i]]

\* the categories the grouping loop goes through, in its order
group_loop_cats == sorted_categories

RECURSIVE group_loop(_, _, _, _)
group_loop(cats, params, extra_params, grouped_params) ==
    IF cats = <<>> THEN grouped_params
    ELSE LET category == Head(cats)
             grpname == category[2]
         IN IF is_hidden(category)
            THEN group_loop(Tail(cats), params, extra_params, grouped_params)
            ELSE group_loop(Tail(cats), params, extra_params,
                     drop_if_empty(
                         OD_Set(grouped_params, grpname,
                                group_of(category, params, extra_params)),
                         grpname))

\* the renderer of the format: KeyError for a format without one
render(output_format, title, grouped_params) ==
    IF output_format = FORMAT_RST THEN avail_easyconfig_params_rst(title, grouped_params)
    ELSE IF output_format = FORMAT_TXT THEN avail_easyconfig_params_txt(title, grouped_params)
    ELSE [exc |-> "KeyError"]

\* the whole call on heap h: the heap it leaves and what it computed
avail_easyconfig_params(h, easyblock, output_format) ==
    LET copied == copy_deepcopy(h, DEFAULT_CONFIG)
        app == get_easyblock_class(easyblock)
        extra_params == IF app # PyNone THEN app.class.extra_options ELSE EmptyDict
        h2 == dict_update(copied.heap, copied.ref, extra_params)
        params == h2[copied.ref]
        title == compose_title(easyblock, app, extra_params)
        grouped_params == group_loop(group_loop_cats, params, extra_params, <<>>)
    IN [ heap |-> Collect(h2),
         app |-> app,
         extra_params |-> extra_params,
         params |-> params,
         title |-> title,
         grouped_params |-> grouped_params,
         out |-> render(output_format, title, grouped_params) ]

(***************************************************************************)
(* doc_easyblock                                                           *)
(***************************************************************************)
\* the hard-coded table of commonly used parameters
common_params ==
    (<<"C","o","n","f","i","g","u","r","e","M","a","k","e">> :> << <<"c","o","n","f","i","g","o","p","t","s">>, <<"b","u","i","l","d","o","p","t","s">>, <<"i","n","s","t","a","l","l","o","p","t","s">> >>)

\* title block, '(derives from ...)' line and docstring
doc_head(eb_class) ==
    LET classname == eb_class.name
        bases == [i \in 1..Len(eb_class.bases) |-> <<"GRAVE ACCENT","GRAVE ACCENT">> \o eb_class.bases[i] \o <<"GRAVE ACCENT","GRAVE ACCENT">>]
        derived == <<"(","d","e","r","i","v","e","s"," ","f","r","o","m"," ">> \o Join(<<","," ">>, bases) \o <<")">>
    IN IF ~IsStr(eb_class.doc) THEN [exc |-> "AttributeError"]
       ELSE [lines |-> << <<"GRAVE ACCENT","GRAVE ACCENT">> \o classname \o <<"GRAVE ACCENT","GRAVE ACCENT">>, Rep("=", Len(classname) + 4), <<>>,
                          derived, <<>>,
                          Strip(eb_class.doc.str), <<>> >>]

\* the rows of the table of extra parameters, in the dictionary's order
doc_extra_rows(ex_opt, nw, dw, dfw) ==
    LET keys == Keys(ex_opt)
    IN [i \in 1..Len(keys) |->
           line_tmpl(nw, dw, dfw, <<"GRAVE ACCENT","GRAVE ACCENT">> \o keys[i] \o <<"GRAVE ACCENT","GRAVE ACCENT">>, ex_opt[keys[i]][2],
                     <<"GRAVE ACCENT","GRAVE ACCENT">> \o PyToStr(quote_str(ex_opt[keys[i]][1])) \o <<"GRAVE ACCENT","GRAVE ACCENT">>, " ")]

\* the table of extra parameters, if the class declares any
doc_extra(eb_class) ==
    IF DOMAIN eb_class.extra_options = {} THEN <<>>
    ELSE LET extra_parameters == <<"E","x","t","r","a"," ","e","a","s","y","c","o","n","f","i","g"," ","p","a","r","a","m","e","t","e","r","s"," ","s","p","e","c","i","f","i","c"," ","t","o"," ","GRAVE ACCENT","GRAVE ACCENT">>
                                     \o eb_class.name \o <<"GRAVE ACCENT","GRAVE ACCENT"," ","e","a","s","y","b","l","o","c","k">>
             ex_opt == eb_class.extra_options
             ectitle == <<"e","a","s","y","c","o","n","f","i","g"," ","p","a","r","a","m","e","t","e","r">>
             desctitle == <<"d","e","s","c","r","i","p","t","i","o","n">>
             dftitle == <<"d","e","f","a","u","l","t"," ","v","a","l","u","e">>
             keys == Keys(ex_opt)
             nw == det_col_width(keys, ectitle).ret + 4
             dw == det_col_width([i \in 1..Len(keys) |-> ex_opt[keys[i]][2]], desctitle).ret
             dfw == det_col_width([i \in 1..Len(keys) |-> PyToStr(ex_opt[keys[i]][1])],
                                  dftitle).ret + 4
             table_line == line_tmpl(nw, dw, dfw, <<>>, <<>>, <<>>, "=")
         IN << extra_parameters, Rep("-", Len(extra_parameters)), <<>>,
               table_line,
               line_tmpl(nw, dw, dfw, ectitle, desctitle, dftitle, " "),
               table_line >>
            \o doc_extra_rows(ex_opt, nw, dw, dfw)
            \o << table_line, <<>> >>

\* the bullet list of commonly used parameters, if the class name is in
\* the table: KeyError when the default table lacks one of them
doc_common(eb_class, defaults) ==
    LET classname == eb_class.name
    IN IF classname \notin DOMAIN common_params THEN [lines |-> <<>>]
       ELSE LET commonly_used == <<"C","o","m","m","o","n","l","y"," ","u","s","e","d"," ","e","a","s","y","c","o","n","f","i","g"," ","p","a","r","a","m","e","t","e","r","s"," ","w","i","t","h"," ","GRAVE ACCENT","GRAVE ACCENT">>
                                     \o classname \o <<"GRAVE ACCENT","GRAVE ACCENT"," ","e","a","s","y","b","l","o","c","k">>
                opts == common_params[classname]
            IN IF \E i \in 1..Len(opts) : opts[i] \notin DOMAIN defaults
               THEN [exc |-> "KeyError"]
               ELSE [lines |-> << commonly_used, Rep("-", Len(commonly_used)) >>
                        \o [i \in 1..Len(opts) |->
                               <<"*"," ","GRAVE ACCENT","GRAVE ACCENT">> \o opts[i] \o <<"GRAVE ACCENT","GRAVE ACCENT"," ","-"," ">> \o defaults[opts[i]][2]]]

\* the example is looked for under the class name alone
doc_example_no_suffix(eb_class, examples) ==
    IF eb_class.name \notin DOMAIN examples THEN <<>>
    ELSE << <<>>, <<"E","x","a","m","p","l","e">> >>

\* the Example section, if doc_examples lists <classname>.eb
doc_example(eb_class, examples) ==
    LET fn == eb_class.name \o <<".","e","b">>
    IN IF fn \notin DOMAIN examples THEN <<>>
       ELSE << <<>>, <<"E","x","a","m","p","l","e">>, Rep("-", 8), <<>>, <<":",":">>, <<>> >>
            \o [i \in 1..Len(examples[fn]) |-> <<" "," "," "," ">> \o Strip(examples[fn][i])]
            \o << <<>> >>

doc_easyblock(eb_class, defaults, examples) ==
    LET head == doc_head(eb_class)
        common == doc_common(eb_class, defaults)
    IN IF "exc" \in DOMAIN head THEN head
       ELSE IF "exc" \in DOMAIN common THEN common
       ELSE [lines |-> head.lines \o doc_extra(eb_class) \o common.lines
                       \o doc_example(eb_class, examples)]

(***************************************************************************)
(* generic_easyblocks                                                      *)
(***************************************************************************)
\* a module: its members that are classes, attribute name -> class
mod_configuremake ==
    (<<"C","o","n","f","i","g","u","r","e","M","a","k","e">> :> ConfigureMake) @@ (<<"E","a","s","y","B","l","o","c","k">> :> EasyBlock)

mod_cmakemake ==
    (<<"C","M","a","k","e","M","a","k","e">> :> CMakeMake) @@ (<<"C","o","n","f","i","g","u","r","e","M","a","k","e">> :> ConfigureMake)

mod_bundle ==
    (<<"B","u","n","d","l","e">> :> Bundle) @@ (<<"E","a","s","y","B","l","o","c","k">> :> EasyBlock) @@ (<<"T","o","y">> :> Toy)

\* defines a second class named ConfigureMake
mod_autotools ==
    (<<"C","o","n","f","i","g","u","r","e","M","a","k","e">> :> ConfigureMake2) @@ (<<"E","a","s","y","B","l","o","c","k">> :> EasyBlock)

\* from easybuild.easyblocks.generic.configuremake import ConfigureMake as Autotools
mod_compat ==
    (<<"A","u","t","o","t","o","o","l","s">> :> ConfigureMake) @@ (<<"C","o","n","f","i","g","u","r","e","M","a","k","e">> :> ConfigureMake)

mod_undocumented ==
    (<<"U","n","d","o","c","u","m","e","n","t","e","d">> :> Undocumented)

ModulePool ==
    {mod_configuremake, mod_cmakemake, mod_bundle, mod_autotools, mod_compat, mod_undocumented}

\* eb_class.__module__.startswith('easybuild.easyblocks.generic') and name not in seen
is_new(eb_class, name, seen) ==
    StartsWith(eb_class.module, GenericPrefix) /\ name \notin Range(seen)

\* the loop over inspect.getmembers(m, inspect.isclass), which is sorted
\* on the name; acc holds docs and seen, or the exception raised
RECURSIVE members_loop(_, _, _, _, _)
members_loop(m, names, acc, defaults, examples) ==
    IF "exc" \in DOMAIN acc \/ names = <<>> THEN acc
    ELSE LET name == Head(names)
             eb_class == m[name]
         IN IF is_new(eb_class, name, acc.seen)
            THEN LET d == doc_easyblock(eb_class, defaults, examples)
                 IN IF "exc" \in DOMAIN d THEN d
                    ELSE members_loop(m, Tail(names),
                             [docs |-> Append(acc.docs, d.lines),
                              seen |-> Append(acc.seen, name)],
                             defaults, examples)
            ELSE members_loop(m, Tail(names), acc, defaults, examples)

RECURSIVE modules_loop(_, _, _, _)
modules_loop(mods, acc, defaults, examples) ==
    IF "exc" \in DOMAIN acc \/ mods = <<>> THEN acc
    ELSE modules_loop(Tail(mods),
             members_loop(Head(mods), Sorted(DOMAIN Head(mods)), acc, defaults, examples),
             defaults, examples)

\* the docs returned (with the names seen), or the exception raised
generic_easyblocks(mods, defaults, examples) ==
    modules_loop(mods, [docs |-> <<>>, seen |-> <<>>], defaults, examples)

(***************************************************************************)
(* Reading a rendered overview back: its groups, and the rows of each.     *)
(***************************************************************************)
\* the first index >= i at which sub occurs in s, 0 if there is none
RECURSIVE Find(_, _, _)
Find(s, sub, i) ==
    IF i + Len(sub) - 1 > Len(s) THEN 0
    ELSE IF SubSeq(s, i, i + Len(sub) - 1) = sub THEN i
    ELSE Find(s, sub, i + 1)

Contains(s, sub) == Find(s, sub, 1) > 0

\* the lines from i on that are rows of the current table or section
RECURSIVE CountRstRows(_, _)
CountRstRows(lines, i) ==
    IF i <= Len(lines) /\ StartsWith(lines[i], <<"GRAVE ACCENT","GRAVE ACCENT">>)
    THEN 1 + CountRstRows(lines, i + 1) ELSE 0

RECURSIVE CountTxtRows(_, _)
CountTxtRows(lines, i) ==
    IF i <= Len(lines) /\ lines[i] # <<>> THEN 1 + CountTxtRows(lines, i + 1) ELSE 0

\* the name of a row: between the double backticks (rst), up to the first
\* blank (txt)
RstRowName(line) == SubSeq(line, 3, Find(line, <<"GRAVE ACCENT","GRAVE ACCENT">>, 3) - 1)

TxtRowName(line) == SubSeq(line, 1, Find(line, <<" ">>, 1) - 1)

\* the groups of an rst overview, from the section title at line i on
RECURSIVE ParseRst(_, _)
ParseRst(lines, i) ==
    IF i > Len(lines) THEN <<>>
    ELSE LET n == CountRstRows(lines, i + 6)
         IN << [ grp |-> SubSeq(lines[i], 1, Len(lines[i]) - Len(<<" ","p","a","r","a","m","e","t","e","r","s">>)),
                 rows |-> [k \in 1..n |-> [ name |-> RstRowName(lines[i + 5 + k]),
                                            line |-> lines[i + 5 + k] ]] ] >>
            \o ParseRst(lines, i + n + 8)

\* the groups of a txt overview, from the section title at line i on
RECURSIVE ParseTxt(_, _)
ParseTxt(lines, i) ==
    IF i > Len(lines) THEN <<>>
    ELSE LET n == CountTxtRows(lines, i + 2)
         IN << [ grp |-> lines[i],
                 rows |-> [k \in 1..n |-> [ name |-> TxtRowName(lines[i + 1 + k]),
                                            line |-> lines[i + 1 + k] ]] ] >>
            \o ParseTxt(lines, i + n + 3)

\* the call returned a text
Rendered(c) == "lines" \in DOMAIN c.out

\* the groups of the text a call returned
Groups(c) ==
    IF c.output_format = FORMAT_RST THEN ParseRst(c.out.lines, 4)
    ELSE ParseTxt(c.out.lines, 3)

\* all its rows
RECURSIVE RowsOf(_)
RowsOf(groups) == IF groups = <<>> THEN <<>> ELSE Head(groups).rows \o RowsOf(Tail(groups))

\* the extra parameters of the class the easyblock resolved to
ExtraOf(c) == IF c.app = PyNone THEN EmptyDict ELSE c.app.class.extra_options

\* the table the call lists: the defaults, overwritten by the extras
MergedOf(c) == ExtraOf(c) @@ heap[DEFAULT_CONFIG]

\* the group has the label of the category (upper-cased in txt)
Labelled(g, category) == Upper(g.grp) = Upper(category[2])

\* the calls made so far
Calls == {results[k] : k \in DOMAIN results}

BaseTitle == <<"A","v","a","i","l","a","b","l","e"," ","e","a","s","y","c","o","n","f","i","g"," ","p","a","r","a","m","e","t","e","r","s">>

(***************************************************************************)
(* Claims on avail_easyconfig_params.                                      *)
(***************************************************************************)
\* C1: hidden-category parameters never appear in a rendered overview: no
\* group for the hidden category, and no row, with or without the trailing
\* marker, for a parameter of the hidden category, be it a default or an
\* extra parameter of the easyblock.
C1_HiddenNeverRendered ==
    \A c \in Calls : Rendered(c) =>
        LET groups == Groups(c)
            rows == RowsOf(groups)
        IN /\ \A i \in 1..Len(groups) : ~Labelled(groups[i], HIDDEN)
           /\ \A n \in DOMAIN MergedOf(c) : MergedOf(c)[n][3] = HIDDEN =>
                  \A j \in 1..Len(rows) : rows[j].name \notin {n, n \o <<"*">>}

\* C2: a row's name ends in the marker if and only if its parameter is a
\* key of the resolved easyblock's extra_options(); each extra parameter is
\* listed once, marked, in the group of the category it declares and with
\* the description and default it declares, also when it overwrites a
\* framework default of the same name.
C2_MarkerIffExtra ==
    \A c \in Calls : Rendered(c) =>
        LET groups == Groups(c)
            rows == RowsOf(groups)
            extra == ExtraOf(c)
        IN /\ \A j \in 1..Len(rows) :
                  LET r == rows[j].name
                  IN IF EndsWith(r, <<"*">>)
                     THEN SubSeq(r, 1, Len(r) - 1) \in DOMAIN extra
                     ELSE r \in DOMAIN heap[DEFAULT_CONFIG] \ DOMAIN extra
           /\ \A n \in DOMAIN extra : extra[n][3] # HIDDEN =>
                  /\ Cardinality({j \in 1..Len(rows) : rows[j].name = n \o <<"*">>}) = 1
                  /\ n \in DOMAIN heap[DEFAULT_CONFIG] =>
                         \A j \in 1..Len(rows) : rows[j].name # n
                  /\ \E i \in 1..Len(groups) :
                         /\ Labelled(groups[i], extra[n][3])
                         /\ \E j \in 1..Len(groups[i].rows) :
                                /\ groups[i].rows[j].name = n \o <<"*">>
                                /\ Contains(groups[i].rows[j].line, extra[n][2])
                                /\ Contains(groups[i].rows[j].line,
                                            PyToStr(quote_str(extra[n][1])))

C2_Witness ==
    \E c \in Calls :
        /\ Rendered(c)
        /\ \E n \in DOMAIN ExtraOf(c) : n \in DOMAIN heap[DEFAULT_CONFIG]
        /\ \E n \in DOMAIN heap[DEFAULT_CONFIG] : n \notin DOMAIN ExtraOf(c)

\* the place of a group's category in the canonical order
CatIndex(g) == CHOOSE i \in 1..Len(sorted_categories) : Labelled(g, sorted_categories[i])

C4_DefaultConfigUnchanged ==
    [][ /\ heap'[DEFAULT_CONFIG] = heap[DEFAULT_CONFIG]
        /\ \A k \in DOMAIN results : results'[k].out = results[k].out ]_vars

\* a call without easyblock and a call that merged extra parameters were
\* both made, as well as a call that failed
C4_Witness ==
    /\ \E c \in Calls : c.easyblock = PyNone /\ Rendered(c)
    /\ \E c \in Calls : DOMAIN c.extra_params # {} /\ ~Rendered(c)

\* C5: when the easyblock resolves to no class the call returns what it
\* returns for no easyblock and the same format: a text for rst and txt,
\* with the plain title and no marked row.  The note on the marker is in
\* the title only if a class resolved and declares extra parameters.
C5_UnresolvedIsNoExtra ==
    \A c \in Calls :
        /\ c.app = PyNone =>
               /\ c.output_format \in {FORMAT_RST, FORMAT_TXT} => Rendered(c)
               /\ Rendered(c) =>
                      /\ c.out.lines[1] \in {BaseTitle, BaseTitle \o <<":">>}
                      /\ \A j \in 1..Len(RowsOf(Groups(c))) :
                             ~EndsWith(RowsOf(Groups(c))[j].name, <<"*">>)
               /\ \A d \in Calls :
                      d.easyblock = PyNone /\ d.output_format = c.output_format
                          => d.out = c.out
        /\ Rendered(c) =>
               (Contains(c.out.lines[1], <<"(","*"," ","i","n","d","i","c","a","t","e","s"," ","s","p","e","c","i","f","i","c"," ","t","o">>)
                   <=> (c.app # PyNone /\ DOMAIN c.app.class.extra_options # {}))

C5_Witness ==
    \E c, d \in Calls :
        /\ c.easyblock # PyNone /\ c.app = PyNone
        /\ d.easyblock = PyNone /\ d.output_format = c.output_format
        /\ Rendered(c)

\* C8: the groups handed to the renderer hold no empty group, so no empty
\* section is rendered and the txt renderer never takes max() of no name.
C8_NoEmptyGroup ==
    \A c \in Calls :
        /\ \A i \in 1..Len(c.grouped_params) : DOMAIN c.grouped_params[i][2] # {}
        /\ c.out # [exc |-> "ValueError"]
        /\ Rendered(c) => \A i \in 1..Len(Groups(c)) : Len(Groups(c)[i].rows) >= 1

\* a category without any parameter, in a txt overview
C8_Witness ==
    \E c \in Calls :
        /\ Rendered(c) /\ c.output_format = FORMAT_TXT
        /\ \E category \in ALL_CATEGORIES \ {HIDDEN} :
               \A n \in DOMAIN MergedOf(c) : MergedOf(c)[n][3] # category

(***************************************************************************)
(* Claims on generic_easyblocks and doc_easyblock.                         *)
(***************************************************************************)
\* the class a documentation block is about: its first line without the
\* double backticks
BlockClass(block) == SubSeq(block[1], 3, Len(block[1]) - 2)

\* the classes generic_easyblocks has to document: members of a discovered
\* module, declared under the generic namespace
GenericClasses ==
    {c \in UNION {{modules[i][a] : a \in DOMAIN modules[i]} : i \in 1..Len(modules)} :
        StartsWith(c.module, GenericPrefix)}

\* C6: generic_easyblocks returns exactly one block per distinct class name
\* among the classes that are members of a discovered module and declared
\* under easybuild.easyblocks.generic; enumerating twice over the same
\* namespace gives the same class names, without duplicates.
C6_OneBlockPerClassName ==
    \A r \in 1..Len(runs) : "docs" \in DOMAIN runs[r] =>
        LET docs == runs[r].docs
        IN /\ {BlockClass(docs[i]) : i \in 1..Len(docs)} = {c.name : c \in GenericClasses}
           /\ \A i, j \in 1..Len(docs) : i # j => BlockClass(docs[i]) # BlockClass(docs[j])
           /\ \A q \in 1..Len(runs) :
                  /\ "docs" \in DOMAIN runs[q]
                  /\ {BlockClass(runs[q].docs[i]) : i \in 1..Len(runs[q].docs)}
                         = {BlockClass(docs[i]) : i \in 1..Len(docs)}

\* the lines of a three-column table: from the first line of '=' and
\* blanks to the last one
IsTableLine(line) ==
    /\ Contains(line, <<"="," "," "," ","=">>)
    /\ \A i \in 1..Len(line) : line[i] \in {"=", " "}

TableLines(lines) == {i \in 1..Len(lines) : IsTableLine(lines[i])}

\* every line of every table is as long as the table's separator line
TablesAligned(lines) ==
    \A i, j \in TableLines(lines) :
        (i < j /\ \A k \in (i + 1)..(j - 1) : k \notin TableLines(lines) /\ lines[k] # <<>>)
            => \A k \in i..j : Len(lines[k]) = Len(lines[i])

\* C7: in every rendered table no cell exceeds its column width: every
\* header row and data row is as long as the table's separator line, in
\* the tables of avail_easyconfig_params_rst and in the extra-parameters
\* table of doc_easyblock.
C7_CellsFitColumns ==
    /\ \A c \in Calls :
           (Rendered(c) /\ c.output_format = FORMAT_RST) => TablesAligned(c.out.lines)
    /\ (call.op = "doc_easyblock" /\ Rendered(call)) => TablesAligned(call.out.lines)

\* the index of the section title, 0 if the section is absent
SectionAt(lines, title) ==
    IF \E i \in 1..Len(lines) : lines[i] = title
    THEN CHOOSE i \in 1..Len(lines) : lines[i] = title
    ELSE 0

ExtraTitle(eb_class) ==
    <<"E","x","t","r","a"," ","e","a","s","y","c","o","n","f","i","g"," ","p","a","r","a","m","e","t","e","r","s"," ","s","p","e","c","i","f","i","c"," ","t","o"," ","GRAVE ACCENT","GRAVE ACCENT">> \o eb_class.name \o <<"GRAVE ACCENT","GRAVE ACCENT"," ","e","a","s","y","b","l","o","c","k">>

CommonTitle(eb_class) ==
    <<"C","o","m","m","o","n","l","y"," ","u","s","e","d"," ","e","a","s","y","c","o","n","f","i","g"," ","p","a","r","a","m","e","t","e","r","s"," ","w","i","t","h"," ","GRAVE ACCENT","GRAVE ACCENT">> \o eb_class.name \o <<"GRAVE ACCENT","GRAVE ACCENT"," ","e","a","s","y","b","l","o","c","k">>

\* C9: a text doc_easyblock returns starts with the title block, the
\* '(derives from ...)' line and the stripped docstring; then come the
\* extra-parameters table iff extra_options() is non-empty, the list of
\* commonly used parameters iff the class name is in the hard-coded table,
\* and the Example section iff doc_examples lists <classname>.eb, in this
\* order; a class with none of the three renders the first part only.
C9_SectionsOfDocEasyblock ==
    (call.op = "doc_easyblock" /\ Rendered(call)) =>
        LET lines == call.out.lines
            cls == call.eb_class
            x == SectionAt(lines, ExtraTitle(cls))
            y == SectionAt(lines, CommonTitle(cls))
            z == SectionAt(lines, <<"E","x","a","m","p","l","e">>)
        IN /\ Len(lines) >= 7
           /\ lines[1] = <<"GRAVE ACCENT","GRAVE ACCENT">> \o cls.name \o <<"GRAVE ACCENT","GRAVE ACCENT">>
           /\ lines[2] = Rep("=", Len(cls.name) + 4)
           /\ lines[3] = <<>>
           /\ StartsWith(lines[4], <<"(","d","e","r","i","v","e","s"," ","f","r","o","m"," ","GRAVE ACCENT","GRAVE ACCENT">> \o cls.bases[1] \o <<"GRAVE ACCENT","GRAVE ACCENT">>)
           /\ \A b \in 1..Len(cls.bases) : Contains(lines[4], <<"GRAVE ACCENT","GRAVE ACCENT">> \o cls.bases[b] \o <<"GRAVE ACCENT","GRAVE ACCENT">>)
           /\ lines[4][Len(lines[4])] = ")"
           /\ lines[5] = <<>>
           /\ lines[6] = Strip(cls.doc.str)
           /\ lines[7] = <<>>
           /\ (x # 0) <=> (DOMAIN cls.extra_options # {})
           /\ (y # 0) <=> (cls.name \in DOMAIN common_params)
           /\ (z # 0) <=> (cls.name \o <<".","e","b">> \in DOMAIN doc_examples)
           /\ x # 0 => x = 8
           /\ y # 0 => (y > 7 /\ y > x)
           /\ z # 0 => (z > 7 /\ z > x /\ z > y /\ lines[z + 1] = Rep("-", 8))
           /\ (x = 0 /\ y = 0 /\ z = 0) => Len(lines) = 7

\* a class with the three optional sections
C9_Witness ==
    /\ call.op = "doc_easyblock" /\ Rendered(call)
    /\ DOMAIN call.eb_class.extra_options # {}
    /\ SectionAt(call.out.lines, CommonTitle(call.eb_class)) # 0
    /\ SectionAt(call.out.lines, <<"E","x","a","m","p","l","e">>) # 0

(***************************************************************************)
(* Claims on det_col_width.                                                *)
(***************************************************************************)
\* the lengths det_col_width takes the maximum of
Lengths(c) == {Len(c.entries[i]) : i \in 1..Len(c.entries)} \cup {Len(c.title)}

\* C10, as stated: the maximum length over the candidates and the title;
\* the title's length when there is no candidate and the title is not
\* empty; a domain error when there is no candidate and the title is empty.
C10_EmptyInputRaises ==
    call.op = "det_col_width" =>
        IF call.entries = <<>> /\ call.title = <<>>
        THEN call.out = [exc |-> "ValueError"]
        ELSE /\ "ret" \in DOMAIN call.out
             /\ call.out.ret \in Lengths(call)
             /\ \A n \in Lengths(call) : n <= call.out.ret

\* C10, amended: det_col_width never raises: it returns the maximum length
\* over the candidates and the title, which is the title's length when
\* there is no candidate, and 0 when moreover the title is empty.
C10_WidthIsMaxLength ==
    call.op = "det_col_width" =>
        /\ "ret" \in DOMAIN call.out
        /\ call.out.ret \in Lengths(call)
        /\ \A n \in Lengths(call) : n <= call.out.ret
        /\ call.entries = <<>> => call.out.ret = Len(call.title)

C10_Witness ==
    /\ call.op = "det_col_width"
    /\ call.entries = <<>> /\ call.title = <<>>
    /\ call.out = [ret |-> 0]

(***************************************************************************)
(* Calls of avail_easyconfig_params on the shared default table.           *)
(***************************************************************************)
NoCall == [op |-> "import"]

Init ==
    /\ heap \in {[o \in {DEFAULT_CONFIG} |-> t] : t \in DefaultTables}
    /\ call = NoCall
    /\ results = <<>>
    /\ modules = <<>>
    /\ doc_examples = <<>>
    /\ runs = <<>>

\* a call is taken if fewer than MaxCalls different calls were made, or to
\* repeat one of them; results keeps what each call computed and returned
AvailEasyconfigParams(easyblock, output_format) ==
    /\ \/ <<easyblock, output_format>> \in DOMAIN results
       \/ Cardinality(DOMAIN results) < MaxCalls
    /\ LET r == avail_easyconfig_params(heap, easyblock, output_format)
       IN /\ heap' = r.heap
          /\ results' = (<<easyblock, output_format>> :>
                            [ easyblock |-> easyblock,
                              output_format |-> output_format,
                              app |-> r.app,
                              extra_params |-> r.extra_params,
                              params |-> r.params,
                              title |-> r.title,
                              grouped_params |-> r.grouped_params,
                              out |-> r.out ]) @@ results
    /\ UNCHANGED <<call, modules, doc_examples, runs>>

Next == \E easyblock \in Easyblocks, output_format \in Formats :
            AvailEasyconfigParams(easyblock, output_format)

Spec == Init /\ [][Next]_vars

(***************************************************************************)
(* Calls of det_col_width.                                                 *)
(***************************************************************************)
\* the strings handed to det_col_width
WidthStrings == { <<>>, <<"a">>, <<"n","a","m","e">>, <<"*","*","D","e","s","c","r","i","p","t","i","o","n","*","*">> }

SeqsUpTo(S, n) == UNION {[1..k -> S] : k \in 0..n}

InitWidth ==
    /\ heap = <<>>
    /\ call = NoCall
    /\ results = <<>>
    /\ modules = <<>>
    /\ doc_examples = <<>>
    /\ runs = <<>>

DetColWidth(entries, title) ==
    /\ call' = [ op |-> "det_col_width", entries |-> entries, title |-> title,
                 out |-> det_col_width(entries, title) ]
    /\ UNCHANGED <<heap, results, modules, doc_examples, runs>>

NextWidth == \E entries \in SeqsUpTo(WidthStrings, MaxEntries), title \in WidthStrings :
                 DetColWidth(entries, title)

SpecWidth == InitWidth /\ [][NextWidth]_vars

(***************************************************************************)
(* Calls of doc_easyblock.                                                 *)
(***************************************************************************)
\* the listings of the doc_examples directory: file name -> lines
ExampleDirs ==
    { EmptyDict,
      (<<"C","o","n","f","i","g","u","r","e","M","a","k","e",".","e","b">> :> << <<"n","a","m","e"," ","="," ","'","z","l","i","b","'"," "," ">>, <<" "," ","v","e","r","s","i","o","n"," ","="," ","'","1",".","2",".","8","'">> >>),
      (<<"C","M","a","k","e","M","a","k","e",".","e","b">> :> << <<"e","a","s","y","b","l","o","c","k"," ","="," ","'","C","M","a","k","e","M","a","k","e","'">> >>) @@ (<<"R","E","A","D","M","E">> :> <<>>),
      (<<"B","u","n","d","l","e",".","e","b">> :> <<>>) @@ (<<"E","a","s","y","B","l","o","c","k">> :> << <<"#"," ","n","o","t"," ","a","n"," ","e","x","a","m","p","l","e">> >>),
      (<<"T","o","y",".","e","b",".","o","r","i","g">> :> << <<"n","a","m","e"," ","="," ","'","t","o","y","'">> >>) @@ (<<"C","o","n","f","i","g","u","r","e","M","a","k","e">> :> <<>>) }

InitDoc ==
    /\ heap \in {[o \in {DEFAULT_CONFIG} |-> t] : t \in DefaultTables}
    /\ call = NoCall
    /\ results = <<>>
    /\ modules = <<>>
    /\ doc_examples \in ExampleDirs
    /\ runs = <<>>

DocEasyblock(eb_class) ==
    /\ call' = [ op |-> "doc_easyblock", eb_class |-> eb_class,
                 out |-> doc_easyblock(eb_class, heap[DEFAULT_CONFIG], doc_examples) ]
    /\ UNCHANGED <<heap, results, modules, doc_examples, runs>>

NextDoc == \E eb_class \in Classes : DocEasyblock(eb_class)

SpecDoc == InitDoc /\ [][NextDoc]_vars

(***************************************************************************)
(* Calls of generic_easyblocks on a fixed namespace.                       *)
(***************************************************************************)
\* what import_available_modules may return: distinct modules, any order
Namespaces ==
    {ms \in SeqsUpTo(ModulePool, MaxModules) :
        \A i, j \in 1..Len(ms) : i # j => ms[i] # ms[j]}

InitGeneric ==
    /\ heap = [o \in {DEFAULT_CONFIG} |-> MandatoryParams @@ BuildParams]
    /\ call = NoCall
    /\ results = <<>>
    /\ modules \in Namespaces
    /\ doc_examples \in ExampleDirs
    /\ runs = <<>>

GenericEasyblocks ==
    /\ Len(runs) < MaxRuns
    /\ LET r == generic_easyblocks(modules, heap[DEFAULT_CONFIG], doc_examples)
       IN /\ call' = [op |-> "generic_easyblocks", out |-> r]
          /\ runs' = Append(runs, r)
    /\ UNCHANGED <<heap, results, modules, doc_examples>>

NextGeneric == GenericEasyblocks

SpecGeneric == InitGeneric /\ [][NextGeneric]_vars

====
